---- MODULE Spec2Model ----
(***************************************************************************)
(* Model of pull_viaf.py: the VIAF resolver (viaf_request), the MARC field *)
(* splicer (update_record) and the sequential driver                       *)
(* (process_marc_records).                                                 *)
(*                                                                         *)
(* Python values are tagged records: None, Str(s), List(seq), Dict(f),     *)
(* where a dict is a function from its keys to values.  A MARC field is a  *)
(* record [tag, indicators, subfields, data]; tags are the three-digit     *)
(* MARC tags read as numbers ('001' is 1, '024' is 24), on which the       *)
(* string order pymarc uses coincides with the numeric order.              *)
(***************************************************************************)
EXTENDS Integers, Sequences, FiniteSets, TLC

VARIABLES
    mode,                    \* which entry point is exercised
    record,                  \* record.fields of the record object in flight
    response_codes,          \* codes mapping handed to update_record
    original,                \* fields of the record before any update_record
    applications,            \* number of update_record calls made on record
    raised,                  \* exception that ended the last call ("" if none)
    viaf_response,           \* HTTP response of the lookup: [status_code, body]
    result,                  \* what viaf_request returned
    parsed,                  \* whether viaf_response.json() was called
    input,                   \* records the MARCReader yields, in order
    num_records_to_process,  \* --max_records: None or PyInt(n)
    record_count,            \* enumerate() index of the record in flight
    viaf_response_codes,     \* driver local: result of the last lookup
    output,                  \* field sequences passed to writer.write
    lookups,                 \* identifiers passed to viaf_request, in order
    resolved,                \* value each lookup returned, in order
    pc                       \* driver position

vars == <<mode, record, response_codes, original, applications, raised,
          viaf_response, result, parsed, input, num_records_to_process,
          record_count, viaf_response_codes, output, lookups, resolved, pc>>

resolveVars == <<viaf_response, result, parsed>>
driverVars == <<input, num_records_to_process, record_count,
                viaf_response_codes, output, lookups, resolved, pc>>

----------------------------------------------------------------------------
(* Bounds *)

MaxFields == 3        \* longest record, in fields
MaxApplications == 2  \* update_record calls on one record
MaxRecords == 5       \* longest input stream, in records

----------------------------------------------------------------------------
(* Python values *)

None == [t |-> "None"]
Str(s) == [t |-> "str", v |-> s]
PyInt(n) == [t |-> "int", v |-> n]
List(s) == [t |-> "list", v |-> s]
Dict(f) == [t |-> "dict", v |-> f]

\* bool(x), as the `if x:` tests of the source apply it
Truthy(x) ==
    CASE x.t = "None" -> FALSE
      [] x.t = "str"  -> x.v # ""
      [] x.t = "int"  -> x.v # 0
      [] x.t = "list" -> Len(x.v) > 0
      [] x.t = "dict" -> DOMAIN x.v # {}

\* f'{x}' for the values that reach the f-strings
Format(x) ==
    CASE x.t = "str"  -> x.v
      [] x.t = "int"  -> ToString(x.v)
      [] x.t = "None" -> "None"

----------------------------------------------------------------------------
(* MARC fields *)

Subfield(code, value) == [code |-> code, value |-> value]

Field(tag, indicators, subfields) ==
    [tag |-> tag, indicators |-> indicators, subfields |-> subfields, data |-> ""]

ControlField(tag, data) ==
    [tag |-> tag, indicators |-> <<>>, subfields |-> <<>>, data |-> data]

Tag010 == 10
Tag024 == 24
Tag001 == 1

\* pymarc Field.is_control_field: tag < '010' and tag.isdigit()
is_control_field(field) == field.tag < Tag010

----------------------------------------------------------------------------
(* update_record *)

\* faulty variant of the scan: stops at the first control field
ScanFirstFixed(fields, i, last_fixed_index) ==
    IF \E j \in 1..Len(fields) : is_control_field(fields[j])
    THEN (CHOOSE j \in 1..Len(fields) :
            /\ is_control_field(fields[j])
            /\ \A h \in 1..(j - 1) : ~is_control_field(fields[h])) - 1
    ELSE -1

\* the scan `for i, field in enumerate(record.fields)`, i counted from 0
RECURSIVE ScanLastFixed(_, _, _)
ScanLastFixed(fields, i, last_fixed_index) ==
    IF i >= Len(fields) THEN last_fixed_index
    ELSE ScanLastFixed(fields, i + 1,
                       IF is_control_field(fields[i + 1]) THEN i
                       ELSE last_fixed_index)

LastFixedIndex(fields) == ScanLastFixed(fields, 0, -1)

IsniField(code) ==
    Field(Tag024, <<"7", " ">>,
          <<Subfield("a", Format(code)), Subfield("2", "isni")>>)

ViafField(code) ==
    Field(Tag024, <<"7", " ">>,
          <<Subfield("a", "http://viaf.org/viaf/" \o Format(code)),
            Subfield("2", "uri")>>)

WkpField(code) ==
    Field(Tag024, <<"8", " ">>,
          <<Subfield("a", "https://www.wikidata.org/wiki/" \o Format(code))>>)

\* faulty variant of the test: `is not None` in place of truthiness
IncludeIfNotNone(code) == code # None

\* the test `if response_codes[...]:` guarding each append
Include(code) == Truthy(code)

\* the three conditional appends, in source order
NewFields(codes) ==
    (IF Include(codes["ISNI"]) THEN <<IsniField(codes["ISNI"])>> ELSE <<>>)
    \o (IF Include(codes["VIAF"]) THEN <<ViafField(codes["VIAF"])>> ELSE <<>>)
    \o (IF Include(codes["WKP"]) THEN <<WkpField(codes["WKP"])>> ELSE <<>>)

\* subscripting response_codes: None is not subscriptable, a dict needs the key
SubscriptError(codes) ==
    IF codes.t # "dict" THEN "TypeError"
    ELSE IF {"ISNI", "VIAF", "WKP"} \subseteq DOMAIN codes.v THEN ""
    ELSE "KeyError"

\* variant with a de-duplication guard, which the source does not have
update_record_guarded(fields, codes) ==
    LET last_fixed_index == LastFixedIndex(fields)
        new == IF SubscriptError(codes) = "" THEN NewFields(codes.v) ELSE <<>>
        already == \E i \in 1..Len(fields) : \E j \in 1..Len(new) : fields[i] = new[j]
    IN  IF SubscriptError(codes) # ""
        THEN [raised |-> SubscriptError(codes), fields |-> fields]
        ELSE [raised |-> "",
              fields |-> IF already THEN fields
                         ELSE SubSeq(fields, 1, last_fixed_index + 1)
                              \o new
                              \o SubSeq(fields, last_fixed_index + 2, Len(fields))]

\* faulty variant: the new fields are put in front of the whole record
update_record_prepend(fields, codes) ==
    IF SubscriptError(codes) # ""
    THEN [raised |-> SubscriptError(codes), fields |-> fields]
    ELSE [raised |-> "", fields |-> NewFields(codes.v) \o fields]

\* update_record: the exception raised ("" if none) and record.fields afterwards
update_record(fields, codes) ==
    LET last_fixed_index == LastFixedIndex(fields)
    IN  IF SubscriptError(codes) # ""
        THEN [raised |-> SubscriptError(codes), fields |-> fields]
        ELSE [raised |-> "",
              fields |-> SubSeq(fields, 1, last_fixed_index + 1)
                         \o NewFields(codes.v)
                         \o SubSeq(fields, last_fixed_index + 2, Len(fields))]

----------------------------------------------------------------------------
(* viaf_request *)

StatusOK == 200

\* x[0] as Python evaluates it on a list, a str or anything else
Subscript0(x) ==
    CASE x.t = "list" -> IF Len(x.v) > 0 THEN [raised |-> "", value |-> x.v[1]]
                         ELSE [raised |-> "IndexError", value |-> None]
      [] x.t = "str"  -> IF x.v # "" THEN [raised |-> "", value |-> Str(SubSeq(x.v, 1, 1))]
                         ELSE [raised |-> "IndexError", value |-> None]
      [] x.t = "dict" -> [raised |-> "KeyError", value |-> None]
      [] OTHER        -> [raised |-> "TypeError", value |-> None]

\* `key in viaf_data`: dict keys, list elements, substring of a str
Contains(viaf_data, key) ==
    CASE viaf_data.t = "dict" -> [raised |-> "", value |-> key \in DOMAIN viaf_data.v]
      [] viaf_data.t = "list" ->
            [raised |-> "", value |-> \E i \in 1..Len(viaf_data.v) : viaf_data.v[i] = Str(key)]
      [] viaf_data.t = "str"  -> [raised |-> "", value |-> FALSE]
      [] OTHER                -> [raised |-> "TypeError", value |-> FALSE]

\* `viaf_data.get(key, [''])[0] if key in viaf_data else None`
FirstOrNone(viaf_data, key) ==
    LET present == Contains(viaf_data, key)
    IN  IF present.raised # "" THEN [raised |-> present.raised, value |-> None]
        ELSE IF ~present.value THEN [raised |-> "", value |-> None]
        ELSE IF viaf_data.t # "dict" THEN [raised |-> "AttributeError", value |-> None]
        ELSE Subscript0(viaf_data.v[key])

\* `viaf_data.get(key, '') if key in viaf_data else None`
ValueOrNone(viaf_data, key) ==
    LET present == Contains(viaf_data, key)
    IN  IF present.raised # "" THEN [raised |-> present.raised, value |-> None]
        ELSE IF ~present.value THEN [raised |-> "", value |-> None]
        ELSE IF viaf_data.t # "dict" THEN [raised |-> "AttributeError", value |-> None]
        ELSE [raised |-> "", value |-> viaf_data.v[key]]

\* faulty variant: the .get default '' in place of None for an absent viafID
ViafIdOrEmpty(viaf_data) ==
    IF viaf_data.t = "dict" /\ "viafID" \notin DOMAIN viaf_data.v
    THEN [raised |-> "", value |-> Str("")]
    ELSE ValueOrNone(viaf_data, "viafID")

\* the viafID lookup of viaf_request
ViafIdOrNone(viaf_data) == ValueOrNone(viaf_data, "viafID")

Returned(value, didParse) == [raised |-> "", value |-> value, parsed |-> didParse]
Raised(exception) == [raised |-> exception, value |-> None, parsed |-> TRUE]

\* the body of the `try:` once response.json() has produced viaf_data
ExtractCodes(viaf_data) ==
    LET isni_code == FirstOrNone(viaf_data, "ISNI")
        viaf_code == ViafIdOrNone(viaf_data)
        wkp_code == FirstOrNone(viaf_data, "WKP")
    IN  IF isni_code.raised # "" THEN Raised(isni_code.raised)
        ELSE IF viaf_code.raised # "" THEN Raised(viaf_code.raised)
        ELSE IF wkp_code.raised # "" THEN Raised(wkp_code.raised)
        ELSE Returned(Dict([k \in {"ISNI", "VIAF", "WKP"} |->
                              CASE k = "ISNI" -> isni_code.value
                                [] k = "VIAF" -> viaf_code.value
                                [] k = "WKP"  -> wkp_code.value]), TRUE)

\* faulty variant: the body is parsed whatever the status code
viaf_request_unchecked(response) ==
    IF ~response.body.json_ok THEN Returned(None, TRUE)
    ELSE ExtractCodes(response.body.value)

\* viaf_request, from the HTTP response on: the exception raised ("" if none),
\* the value returned and whether the body was parsed
viaf_request(response) ==
    IF response.status_code = StatusOK
    THEN IF ~response.body.json_ok
         THEN Returned(None, TRUE)           \* ValueError caught, return None
         ELSE ExtractCodes(response.body.value)
    ELSE Returned(None, FALSE)               \* falls off the end of the function

----------------------------------------------------------------------------
(* Inputs *)

c001a == ControlField(Tag001, "a0001")
c001b == ControlField(Tag001, "b0002")
c008 == ControlField(8, "240101")
v100 == Field(100, <<"1", " ">>, <<Subfield("a", "Tamm, Jaan")>>)
v245 == Field(245, <<"1", "0">>, <<Subfield("a", "Title")>>)
v024 == IsniField(Str("0000000123456789"))

FieldPool == {c001a, c008, v100, v245, v024}

\* every field sequence of at most MaxFields fields, well-formed or not
Records == UNION {[1..k -> FieldPool] : k \in 0..MaxFields}

CodeKeys == {"ISNI", "VIAF", "WKP"}

CodeValues(k) ==
    CASE k = "ISNI" -> {None, Str(""), Str("0000000123456789")}
      [] k = "VIAF" -> {None, Str(""), Str("12345")}
      [] k = "WKP"  -> {None, Str(""), Str("Q42")}

\* the values update_record can be handed: a three-key dict, or None
CodesArguments ==
    {None} \cup {Dict(f) : f \in {g \in [CodeKeys -> UNION {CodeValues(k) : k \in CodeKeys}] :
                                    \A k \in CodeKeys : g[k] \in CodeValues(k)}}

BodyKeys == {"ISNI", "viafID", "WKP"}

BodyValues(k) ==
    CASE k = "ISNI"   -> {List(<<>>), List(<<Str("0000000123456789")>>),
                          List(<<Str("0000000123456789"), Str("0000000400000004")>>)}
      [] k = "viafID" -> {Str(""), Str("999")}
      [] k = "WKP"    -> {List(<<>>), List(<<Str("Q42")>>)}

\* JSON objects with any subset of the three keys
DictBodies ==
    UNION {{Dict(f) : f \in {g \in [K -> UNION {BodyValues(k) : k \in BodyKeys}] :
                               \A k \in K : g[k] \in BodyValues(k)}} : K \in SUBSET BodyKeys}

JsonValues == DictBodies \cup {List(<<>>), None}

Malformed == [json_ok |-> FALSE, value |-> None]
Json(v) == [json_ok |-> TRUE, value |-> v]

Response(status_code, body) == [status_code |-> status_code, body |-> body]

Responses ==
    {Response(s, b) : s \in {StatusOK, 404, 500},
                      b \in {Malformed} \cup {Json(v) : v \in JsonValues}}

----------------------------------------------------------------------------
(* update_record exercised on its own *)

IdleDriver ==
    /\ input = <<>>
    /\ num_records_to_process = None
    /\ record_count = -1
    /\ viaf_response_codes = None
    /\ output = <<>>
    /\ lookups = <<>>
    /\ resolved = <<>>
    /\ pc = "idle"

IdleResolver ==
    /\ viaf_response = Response(StatusOK, Malformed)
    /\ result = None
    /\ parsed = FALSE

IdleSplicer ==
    /\ record = <<>>
    /\ response_codes = None
    /\ original = <<>>

InitSplice ==
    /\ mode = "splice"
    /\ record \in Records
    /\ original = record
    /\ response_codes \in CodesArguments
    /\ applications = 0
    /\ raised = ""
    /\ IdleResolver
    /\ IdleDriver

Splice ==
    /\ mode = "splice"
    /\ raised = ""
    /\ applications < MaxApplications
    /\ LET r == update_record(record, response_codes)
       IN  /\ record' = r.fields
           /\ raised' = r.raised
    /\ applications' = applications + 1
    /\ UNCHANGED <<mode, response_codes, original, resolveVars, driverVars>>

NextSplice == Splice

SpecSplice == InitSplice /\ [][NextSplice]_vars

----------------------------------------------------------------------------
(* viaf_request exercised on its own *)

InitResolve ==
    /\ mode = "resolve"
    /\ viaf_response \in Responses
    /\ result = None
    /\ parsed = FALSE
    /\ applications = 0
    /\ raised = ""
    /\ IdleSplicer
    /\ IdleDriver

Resolve ==
    /\ mode = "resolve"
    /\ applications = 0
    /\ LET r == viaf_request(viaf_response)
       IN  /\ result' = r.value
           /\ raised' = r.raised
           /\ parsed' = r.parsed
    /\ applications' = 1
    /\ UNCHANGED <<mode, viaf_response, record, response_codes, original, driverVars>>

NextResolve == Resolve

SpecResolve == InitResolve /\ [][NextResolve]_vars

----------------------------------------------------------------------------
(* process_marc_records *)

recA == <<c001a, v100>>
recB == <<c001b, c008, v245>>
recNo001 == <<v245>>

DriverRecords == {recA, recB, recNo001}

\* input streams of at most MaxRecords records
Inputs == UNION {[1..m -> DriverRecords] : m \in 0..MaxRecords}

\* --max_records absent, or any count up to one past the longest stream
MaxRecordsArguments == {None} \cup {PyInt(n) : n \in 0..(MaxRecords + 1)}

FullBody ==
    Dict([k \in BodyKeys |->
            CASE k = "ISNI"   -> List(<<Str("0000000123456789")>>)
              [] k = "viafID" -> Str("999")
              [] k = "WKP"    -> List(<<Str("Q42")>>)])

\* what the service answers during a run of the driver
DriverResponses ==
    {Response(StatusOK, Json(FullBody)),
     Response(StatusOK, Json(Dict([k \in {"viafID"} |-> Str("999")]))),
     Response(StatusOK, Json(Dict([k \in {} |-> None]))),
     Response(StatusOK, Json(Dict([k \in {"ISNI"} |-> List(<<>>)]))),
     Response(StatusOK, Malformed),
     Response(404, Malformed)}

\* record['001']: the first field tagged 001, KeyError when there is none
HasField001(fields) == \E i \in 1..Len(fields) : fields[i].tag = Tag001

Identifier(fields) ==
    fields[CHOOSE i \in 1..Len(fields) :
              /\ fields[i].tag = Tag001
              /\ \A h \in 1..(i - 1) : fields[h].tag # Tag001].data

\* faulty variant: record_count in place of record_count + 1
BreakAfterOffByOne(num, count) == num # None /\ count >= num.v

\* `num_records_to_process is not None and record_count + 1 >= num_records_to_process`
BreakAfter(num, count) == num # None /\ count + 1 >= num.v

Init ==
    /\ mode = "driver"
    /\ input \in Inputs
    /\ num_records_to_process \in MaxRecordsArguments
    /\ record_count = -1
    /\ viaf_response_codes = None
    /\ output = <<>>
    /\ lookups = <<>>
    /\ resolved = <<>>
    /\ pc = "for"
    /\ applications = 0
    /\ raised = ""
    /\ IdleSplicer
    /\ IdleResolver

\* `for record_count, record in records_iterator`: the next record, or the end
\* of the stream (tqdm only wraps the iterator and yields the same items)
NextRecord ==
    /\ pc = "for"
    /\ IF record_count + 1 < Len(input)
       THEN /\ record_count' = record_count + 1
            /\ record' = input[record_count + 2]
            /\ original' = input[record_count + 2]
            /\ pc' = "request"
       ELSE /\ pc' = "done"
            /\ UNCHANGED <<record_count, record, original>>
    /\ UNCHANGED <<mode, response_codes, applications, raised, resolveVars, input,
                   num_records_to_process, viaf_response_codes, output, lookups,
                   resolved>>

\* identifier = record['001'].value(); viaf_response_codes = viaf_request(identifier)
Request ==
    /\ pc = "request"
    /\ IF ~HasField001(record)
       THEN /\ raised' = "KeyError"
            /\ pc' = "crashed"
            /\ UNCHANGED <<resolveVars, viaf_response_codes, lookups, resolved>>
       ELSE \E response \in DriverResponses :
              LET r == viaf_request(response)
              IN  /\ viaf_response' = response
                  /\ result' = r.value
                  /\ parsed' = r.parsed
                  /\ raised' = r.raised
                  /\ lookups' = Append(lookups, Identifier(record))
                  /\ IF r.raised = ""
                     THEN /\ viaf_response_codes' = r.value
                          /\ resolved' = Append(resolved, r.value)
                          /\ pc' = "update"
                     ELSE /\ pc' = "crashed"
                          /\ UNCHANGED <<viaf_response_codes, resolved>>
    /\ UNCHANGED <<mode, record, response_codes, original, applications, input,
                   num_records_to_process, record_count, output>>

\* updated_record = update_record(record=record, response_codes=viaf_response_codes)
Update ==
    /\ pc = "update"
    /\ LET r == update_record(record, viaf_response_codes)
       IN  /\ record' = r.fields
           /\ raised' = r.raised
           /\ pc' = IF r.raised = "" THEN "write" ELSE "crashed"
    /\ UNCHANGED <<mode, response_codes, original, applications, resolveVars, input,
                   num_records_to_process, record_count, viaf_response_codes, output,
                   lookups, resolved>>

\* variant that writes the fields as read, as if update_record had copied
WriteUnspliced ==
    /\ pc = "write"
    /\ output' = Append(output, original)
    /\ pc' = IF BreakAfter(num_records_to_process, record_count) THEN "done" ELSE "for"
    /\ UNCHANGED <<mode, record, response_codes, original, applications, raised,
                   resolveVars, input, num_records_to_process, record_count,
                   viaf_response_codes, lookups, resolved>>

\* writer.write(record), then the max-records check that ends the loop
Write ==
    /\ pc = "write"
    /\ output' = Append(output, record)
    /\ pc' = IF BreakAfter(num_records_to_process, record_count) THEN "done" ELSE "for"
    /\ UNCHANGED <<mode, record, response_codes, original, applications, raised,
                   resolveVars, input, num_records_to_process, record_count,
                   viaf_response_codes, lookups, resolved>>

Next == NextRecord \/ Request \/ Update \/ Write

Spec == Init /\ [][Next]_vars

----------------------------------------------------------------------------
(* Properties of update_record, under SpecSplice *)

\* position (from 1) of the last control field, 0 when there is none
LastControlPos(fields) ==
    IF \E j \in 1..Len(fields) : fields[j].tag < 10
    THEN CHOOSE j \in 1..Len(fields) :
            /\ fields[j].tag < 10
            /\ \A h \in (j + 1)..Len(fields) : fields[h].tag >= 10
    ELSE 0

Present(code) == code # None /\ code # Str("")

PresentKeys(codes) == {k \in CodeKeys : Present(codes.v[k])}

HasCode(codes) == codes.t = "dict" /\ PresentKeys(codes) # {}

ExpectedIsni(codes) ==
    IF Present(codes.v["ISNI"])
    THEN <<[tag |-> 24, indicators |-> <<"7", " ">>, data |-> "",
            subfields |-> <<[code |-> "a", value |-> codes.v["ISNI"].v],
                            [code |-> "2", value |-> "isni"]>>]>>
    ELSE <<>>

ExpectedViaf(codes) ==
    IF Present(codes.v["VIAF"])
    THEN <<[tag |-> 24, indicators |-> <<"7", " ">>, data |-> "",
            subfields |-> <<[code |-> "a", value |-> "http://viaf.org/viaf/" \o codes.v["VIAF"].v],
                            [code |-> "2", value |-> "uri"]>>]>>
    ELSE <<>>

ExpectedWkp(codes) ==
    IF Present(codes.v["WKP"])
    THEN <<[tag |-> 24, indicators |-> <<"8", " ">>, data |-> "",
            subfields |-> <<[code |-> "a",
                             value |-> "https://www.wikidata.org/wiki/" \o codes.v["WKP"].v]>>]>>
    ELSE <<>>

ExpectedInserted(codes) == ExpectedIsni(codes) \o ExpectedViaf(codes) \o ExpectedWkp(codes)

After(fields, p) == SubSeq(fields, p + 1, Len(fields))

WellFormed(fields) ==
    \A i \in 1..Len(fields) : \A j \in (i + 1)..Len(fields) :
        fields[j].tag < 10 => fields[i].tag < 10

\* C1: with at least one code present, update_record leaves R's fields up to
\* and including the last control field, then at least one new 024 field,
\* then R's remaining fields; every old field is kept once and in order; with
\* no control field the new fields start the record.
C1_SpliceAfterLastControl ==
    (mode = "splice" /\ applications = 1 /\ HasCode(response_codes)) =>
        LET p == LastControlPos(original)
            k == Len(record) - Len(original)
        IN  /\ raised = ""
            /\ k >= 1
            /\ SubSeq(record, 1, p) = SubSeq(original, 1, p)
            /\ \A i \in (p + 1)..(p + k) :
                  /\ record[i].tag = 24
                  /\ record[i] \in {ExpectedInserted(response_codes)[n] :
                                      n \in 1..Len(ExpectedInserted(response_codes))}
            /\ After(record, p + k) = After(original, p)
            /\ (p = 0 => record[1].tag = 24 /\ After(record, k) = original)

C1_Witness ==
    /\ mode = "splice" /\ applications = 1 /\ raised = ""
    /\ original = <<v100, c001a, v245>>
    /\ PresentKeys(response_codes) = {"ISNI", "WKP"}
    /\ Len(record) = 5
    /\ record[2] = c001a /\ record[3].tag = 24 /\ record[4].tag = 24 /\ record[5] = v245

\* C2: a well-formed record (control fields form a leading run) stays
\* well-formed under update_record, whatever the codes.
C2_ContiguityPreserved ==
    (mode = "splice" /\ applications >= 1 /\ WellFormed(original)) => WellFormed(record)

C2_Witness ==
    /\ mode = "splice" /\ applications = 1 /\ raised = ""
    /\ original = <<c001a, c008, v100>>
    /\ PresentKeys(response_codes) = CodeKeys
    /\ Len(record) = 6
    /\ WellFormed(record)

\* C3: the inserted fields are exactly the 024 fields of the present,
\* non-empty codes, in the order ISNI, VIAF, WKP, with the stated indicators
\* and subfields; no code present leaves the fields as they were, VIAF alone
\* inserts one field.
C3_InsertedFields ==
    (mode = "splice" /\ applications = 1 /\ response_codes.t = "dict") =>
        LET p == LastControlPos(original)
        IN  /\ raised = ""
            /\ record = SubSeq(original, 1, p) \o ExpectedInserted(response_codes)
                        \o After(original, p)
            /\ Len(record) = Len(original) + Cardinality(PresentKeys(response_codes))
            /\ (PresentKeys(response_codes) = {} => record = original)
            /\ (PresentKeys(response_codes) = {"VIAF"} =>
                    Len(record) = Len(original) + 1)

C3_Witness ==
    /\ mode = "splice" /\ applications = 1 /\ raised = ""
    /\ original = <<c001a, v100>>
    /\ response_codes = Dict([k \in CodeKeys |-> IF k = "VIAF" THEN Str("12345") ELSE None])
    /\ record = <<c001a,
                  [tag |-> 24, indicators |-> <<"7", " ">>, data |-> "",
                   subfields |-> <<[code |-> "a", value |-> "http://viaf.org/viaf/12345"],
                                   [code |-> "2", value |-> "uri"]>>],
                  v100>>

\* C9: update_record does not de-duplicate: each application with k present
\* codes adds k fields, and after two applications the k new fields stand
\* twice in a row after the last control field, before R's remaining fields.
C9_NotIdempotent ==
    (mode = "splice" /\ HasCode(response_codes)) =>
        LET p == LastControlPos(original)
            new == ExpectedInserted(response_codes)
        IN  /\ raised = ""
            /\ Len(record) = Len(original) + applications * Len(new)
            /\ Len(new) = Cardinality(PresentKeys(response_codes))
            /\ (applications = 2 =>
                    record = SubSeq(original, 1, p) \o new \o new \o After(original, p))

C9_Witness ==
    /\ mode = "splice" /\ applications = 2 /\ raised = ""
    /\ original = <<c001a, v100>>
    /\ PresentKeys(response_codes) = CodeKeys
    /\ Len(record) = 8
    /\ record[2] = record[5] /\ record[3] = record[6] /\ record[4] = record[7]
    /\ record[8] = v100

----------------------------------------------------------------------------
(* Properties of viaf_request, under SpecResolve *)

NonEmptyArray(x) == x.t = "list" /\ Len(x.v) > 0

\* a JSON object whose ISNI and WKP, when present, are non-empty arrays
UsableBody(body) ==
    /\ body.json_ok
    /\ body.value.t = "dict"
    /\ \A k \in {"ISNI", "WKP"} :
          k \in DOMAIN body.value.v => NonEmptyArray(body.value.v[k])

\* C7: on a 200 response with such a body viaf_request returns a mapping with
\* exactly the keys ISNI, VIAF, WKP: the first element of body['ISNI'], the
\* value of body['viafID'], the first element of body['WKP'], each None when
\* its key is absent; absent keys are no error.
C7_CodesExtracted ==
    (mode = "resolve" /\ applications = 1 /\ viaf_response.status_code = 200
       /\ UsableBody(viaf_response.body)) =>
        LET body == viaf_response.body.value.v
        IN  /\ raised = ""
            /\ result.t = "dict"
            /\ DOMAIN result.v = {"ISNI", "VIAF", "WKP"}
            /\ result.v["ISNI"] = IF "ISNI" \in DOMAIN body THEN body["ISNI"].v[1] ELSE None
            /\ result.v["VIAF"] = IF "viafID" \in DOMAIN body THEN body["viafID"] ELSE None
            /\ result.v["WKP"] = IF "WKP" \in DOMAIN body THEN body["WKP"].v[1] ELSE None

C7_Witness ==
    /\ mode = "resolve" /\ applications = 1 /\ raised = ""
    /\ viaf_response = Response(200, Json(Dict([k \in {"viafID"} |-> Str("999")])))
    /\ result = Dict([k \in {"ISNI", "VIAF", "WKP"} |->
                        IF k = "VIAF" THEN Str("999") ELSE None])

\* C8: on any status other than 200 viaf_request raises nothing, returns a
\* value with none of the keys ISNI, VIAF, WKP, and never parses the body.
C8_Non200ReturnsFailure ==
    (mode = "resolve" /\ applications = 1 /\ viaf_response.status_code # 200) =>
        /\ raised = ""
        /\ (result.t = "dict" => DOMAIN result.v \cap {"ISNI", "VIAF", "WKP"} = {})
        /\ result = None
        /\ ~parsed

C8_Witness ==
    /\ mode = "resolve" /\ applications = 1 /\ raised = ""
    /\ viaf_response = Response(404, Json(Dict([k \in {"viafID"} |-> Str("999")])))
    /\ result = None
    /\ ~parsed

----------------------------------------------------------------------------
(* Properties of process_marc_records, under Spec *)

Min(a, b) == IF a <= b THEN a ELSE b

\* the lookup of the record in flight returned None (non-200, or malformed JSON)
LookupFailed ==
    /\ Len(resolved) = record_count + 1
    /\ record_count >= 0
    /\ resolved[record_count + 1] = None

\* C4: a failed lookup (viaf_request returned None) counts as no codes for
\* that record: update_record does not raise, the record goes on to be
\* written with no field added, and the run continues.
C4_FailureDegrades ==
    (mode = "driver" /\ LookupFailed /\ pc # "update") =>
        /\ pc # "crashed"
        /\ record = input[record_count + 1]

\* C5 as claimed: every field sequence written equals the one read.
C5_WritesOriginal ==
    mode = "driver" => \A i \in 1..Len(output) : output[i] = input[i]

\* C5, amended: the driver writes the spliced record, because update_record
\* assigns record.fields of the record object that is then written: what is
\* written is the sequence read with the new 024 fields after its last
\* control field, and equals the sequence read only when no code is present.
C5_WritesSpliced ==
    mode = "driver" =>
        \A i \in 1..Len(output) :
            LET p == LastControlPos(input[i])
            IN  /\ resolved[i].t = "dict"
                /\ output[i] = SubSeq(input[i], 1, p) \o ExpectedInserted(resolved[i])
                               \o After(input[i], p)
                /\ (output[i] = input[i] <=> PresentKeys(resolved[i]) = {})

C5_Witness ==
    /\ mode = "driver"
    /\ Len(output) >= 1
    /\ input[1] = recA
    /\ PresentKeys(resolved[1]) = CodeKeys
    /\ Len(output[1]) = 5
    /\ output[1] # input[1]

\* C6: with max_records n >= 1 the run ends having written the first
\* min(n, M) records of the M-record input, in input order, after exactly
\* min(n, M) lookups: one lookup per written record, made before the write.
C6_CapAndLookups ==
    (mode = "driver" /\ num_records_to_process # None /\ num_records_to_process.v >= 1) =>
        /\ \A i \in 1..Len(lookups) : lookups[i] = Identifier(input[i])
        /\ \A i \in 1..Len(output) :
              LET p == LastControlPos(input[i])
                  k == Len(output[i]) - Len(input[i])
              IN  /\ SubSeq(output[i], 1, p) = SubSeq(input[i], 1, p)
                  /\ After(output[i], p + k) = After(input[i], p)
        /\ (pc \in {"update", "write"} => Len(lookups) = Len(output) + 1)
        /\ (pc \in {"for", "request", "done"} => Len(lookups) = Len(output))
        /\ (pc = "done" =>
              /\ Len(output) = Min(num_records_to_process.v, Len(input))
              /\ Len(lookups) = Min(num_records_to_process.v, Len(input)))

C6_Witness ==
    /\ mode = "driver" /\ pc = "done"
    /\ num_records_to_process = PyInt(2)
    /\ Len(input) = 5
    /\ Len(output) = 2
    /\ Len(lookups) = 2

\* C10: with max_records n >= 0 given, never more than n records are written
\* and never more than n lookups are made.
C10_CapNeverExceeded ==
    (mode = "driver" /\ num_records_to_process # None) =>
        /\ Len(output) <= num_records_to_process.v
        /\ Len(lookups) <= num_records_to_process.v

====
